---- MODULE Spec2Model ----
(***************************************************************************)
(* Model of .github/scripts/upload_shorts_to_r2.py: the uploader that      *)
(* puts every shorts/*.mp4 clip into the R2 bucket and inserts or updates  *)
(* its row of the videos table.                                            *)
(*                                                                         *)
(* Strings are sequences of symbols.  A symbol is one character, except    *)
(* for the literals the script itself treats as units: ".mp4", "short",    *)
(* "videos/", "None".  Python's None is the one-symbol sequence None,      *)
(* whose symbol occurs in no string.                                       *)
(***************************************************************************)
EXTENDS Integers, Sequences, FiniteSets, TLC

\* ------------------------------------------------------------------ bounds

\* Largest number of entries of the shorts directory.
MaxFiles == 2
\* Largest number of segments in the analysis file.
MaxSegs == 2

\* ------------------------------------------------------- strings and values

None == <<"(None)">>
MP4 == ".mp4"

\* Python truthiness of a str-or-None value.
Truthy(x) == x # None /\ x # <<>>

\* str(x) inside an f-string.
Str(x) == IF x = None THEN <<"None">> ELSE x

\* s.replace(sym, '') for a literal that is one symbol of the model.
Replace(s, sym) == SelectSeq(s, LAMBDA c : c # sym)

\* s.split(sep): always at least one part, empty parts kept.
RECURSIVE Split(_, _)
Split(s, sep) ==
    IF \A i \in 1..Len(s) : s[i] # sep
    THEN <<s>>
    ELSE LET i == CHOOSE k \in 1..Len(s) :
                    s[k] = sep /\ \A j \in 1..(k - 1) : s[j] # sep
         IN  <<SubSeq(s, 1, i - 1)>> \o Split(SubSeq(s, i + 1, Len(s)), sep)

\* sep.join(parts)
RECURSIVE Join(_, _)
Join(parts, sep) ==
    IF Len(parts) = 0 THEN <<>>
    ELSE IF Len(parts) = 1 THEN parts[1]
    ELSE parts[1] \o <<sep>> \o Join(Tail(parts), sep)

\* s.endswith(sym)
EndsWith(s, sym) == Len(s) > 0 /\ s[Len(s)] = sym

Digits == {"0", "1", "2", "3", "4", "5", "6", "7", "8", "9"}

DigitVal(c) ==
    CASE c = "0" -> 0 [] c = "1" -> 1 [] c = "2" -> 2 [] c = "3" -> 3
      [] c = "4" -> 4 [] c = "5" -> 5 [] c = "6" -> 6 [] c = "7" -> 7
      [] c = "8" -> 8 [] c = "9" -> 9

RECURSIVE DigitsValue(_)
DigitsValue(s) ==
    IF Len(s) = 0 THEN 0
    ELSE 10 * DigitsValue(SubSeq(s, 1, Len(s) - 1)) + DigitVal(s[Len(s)])

\* int(tok): an optional sign, then one or more decimal digits; anything
\* else raises ValueError (ok = FALSE).
IntParse(tok) ==
    LET signed == Len(tok) > 0 /\ tok[1] \in {"-", "+"}
        body   == IF signed THEN Tail(tok) ELSE tok
        wellFormed == Len(body) > 0 /\ \A i \in 1..Len(body) : body[i] \in Digits
    IN  IF ~wellFormed THEN [ok |-> FALSE, val |-> 0]
        ELSE [ok |-> TRUE,
              val |-> IF signed /\ tok[1] = "-" THEN 0 - DigitsValue(body)
                      ELSE DigitsValue(body)]

\* d.get(k, default) on a dict modelled as a function.
DictGet(d, k, default) == IF k \in DOMAIN d THEN d[k] ELSE default

\* ---------------------------------------------- get_video_info_from_filename

NoExc == "none"

\* The three outcomes of a call: it returns None, it returns the info
\* dict, or it raises.
ReturnsNone == [kind |-> "None", exc |-> NoExc, video_id |-> <<>>, title |-> <<>>,
                description |-> <<>>, duration |-> 0]
Raises(e) == [kind |-> "raise", exc |-> e, video_id |-> <<>>, title |-> <<>>,
              description |-> <<>>, duration |-> 0]
ReturnsInfo(v, t, d, dur) == [kind |-> "info", exc |-> NoExc, video_id |-> v,
                              title |-> t, description |-> d, duration |-> dur]

\* The comparison that selects the segment branch.
SegmentAvailable(segment_num, analysis_segments) ==
    segment_num <= Len(analysis_segments)

get_video_info_from_filename(filename, analysis_segments) ==
    LET parts == Split(Replace(filename, MP4), "_")
    IN  IF Len(parts) < 3 THEN ReturnsNone
        ELSE
        LET video_id == parts[1]
            parsed   == IntParse(parts[Len(parts)])
            segment_num == parsed.val
            title    == Join(SubSeq(parts, 2, Len(parts) - 1), " ")
            L        == Len(analysis_segments)
            \* analysis_segments[segment_num - 1]: a negative index counts
            \* from the end, an index outside -L..L-1 raises IndexError.
            i        == segment_num - 1
            pos      == IF i < 0 THEN i + L ELSE i
        IN  IF ~parsed.ok THEN Raises("ValueError")
            ELSE IF SegmentAvailable(segment_num, analysis_segments)
            THEN IF pos < 0 \/ pos >= L THEN Raises("IndexError")
                 ELSE LET segment == analysis_segments[pos + 1]
                      IN  ReturnsInfo(video_id, title,
                                      DictGet(segment, "description", <<>>),
                                      DictGet(segment, "end", 0)
                                          - DictGet(segment, "start", 0))
            ELSE ReturnsInfo(video_id, title, <<>>, 0)

\* ------------------------------------------------------------ the inputs

RequiredKeys == {"VIDEO_ID", "R2_ACCESS_KEY", "R2_SECRET_KEY", "R2_ENDPOINT",
                 "R2_BUCKET", "DATABASE_URL"}
EnvKeys == RequiredKeys \cup {"R2_PUBLIC_URL"}
EnvValue == <<"value">>

\* Directory entries: well-formed clips (two of them of the same segment),
\* a two-token name, a non-numeric segment, segment 0, segment -1, and a
\* file that is no .mp4.
FilePool ==
    { <<"v", "_", "a", "_", "1", MP4>>,
      <<"v", "_", "b", "_", "1", MP4>>,
      <<"v", "_", "a", "_", "c", "_", "2", MP4>>,
      <<"v", "_", "1", MP4>>,
      <<"v", "_", "a", "_", "x", MP4>>,
      <<"v", "_", "a", "_", "0", MP4>>,
      <<"v", "_", "a", "_", "-", "1", MP4>>,
      <<"v", "_", "a", "_", "1", ".", "t", "x", "t">> }

\* Segment k of the analysis file: duration 3 + k, a description of its own.
SegmentAt(k) == [start |-> 10 * (k - 1), end |-> 10 * (k - 1) + 3 + k,
                 description |-> [i \in 1..k |-> "d"]]
SegmentList(L) == [k \in 1..L |-> SegmentAt(k)]

\* temp/{video_id}/{video_id}_analysis.json: absent, a dict without the
\* "segments" key, or a dict with a list of segments.
AnalysisFiles ==
    { [exists |-> FALSE, hasSegments |-> FALSE, segments |-> <<>>],
      [exists |-> TRUE, hasSegments |-> FALSE, segments |-> <<>>] }
    \cup { [exists |-> TRUE, hasSegments |-> TRUE, segments |-> SegmentList(L)] :
             L \in 0..MaxSegs }

\* The shorts directory: absent, or a set of at most MaxFiles entries.
ShortsDirs ==
    { [exists |-> FALSE, files |-> {}] }
    \cup { [exists |-> TRUE, files |-> S] :
             S \in { T \in SUBSET FilePool : Cardinality(T) <= MaxFiles } }

\* A row of the videos table (created_at and updated_at are left out).
Row(id, video_id, filename, title, description, duration, r2_url, r2_key) ==
    [id |-> id, video_id |-> video_id, filename |-> filename, title |-> title,
     description |-> description, duration |-> duration,
     r2_url |-> r2_url, r2_key |-> r2_key]

\* What the table may hold before the first run: nothing, a completed row
\* of clip v_short_1, or a row of it that has no storage URL yet.
InitialTables ==
    { {},
      { Row(1, <<"v", "_", "short", "_", "1">>, <<"v", "_", "a", "_", "1", MP4>>,
            <<"a">>, <<>>, 0, <<"u">>, <<"videos/", "k">>) },
      { Row(1, <<"v", "_", "short", "_", "1">>, <<"v", "_", "a", "_", "1", MP4>>,
            <<"a">>, <<>>, 0, None, None) } }

\* ------------------------------------------------------------- the state

VARIABLES
    pc,          \* position of the script
    env,         \* os.environ, restricted to the keys the script reads
    shorts,      \* the shorts directory
    analysis,    \* the analysis file
    db,          \* committed rows of the videos table
    store,       \* keys of the objects in the bucket
    s3_client,   \* TRUE once boto3.client returned
    session,     \* "none", "open", "closed"
    closes,      \* number of session.close() calls
    pending,     \* rows added or changed in the session, not committed
    segments,    \* analysis.get('segments', [])
    short_files, \* the listing, in the order os.listdir gave
    idx,         \* index in short_files of the clip being processed
    video_info,  \* result of get_video_info_from_filename for that clip
    existing,    \* id of the row the lookup found, 0 for None
    uploaded, skipped, failed,
    putOk,       \* put_object returned for the clip being processed
    calls,       \* number of calls made to the outside, per kind
    message,     \* what the configuration error names
    exitStatus,  \* -1 while the process runs
    exc,         \* the uncaught exception that ended the process
    rerun,       \* TRUE in the second run
    prev         \* the counts of the first run, in the second run

vars == <<pc, env, shorts, analysis, db, store, s3_client, session, closes,
          pending, segments, short_files, idx, video_info, existing,
          uploaded, skipped, failed, putOk, calls, message, exitStatus, exc,
          rerun, prev>>

NoCalls == [put |-> 0, query |-> 0, commit |-> 0, open |-> 0, listdir |-> 0]
NoMessage == [printed |-> FALSE, keys |-> {}]
NoPrev == [uploaded |-> 0, failed |-> 0, rows |-> 0]

\* The state of a process that has just started.
Fresh ==
    /\ pc = "config"
    /\ s3_client = FALSE
    /\ session = "none"
    /\ closes = 0
    /\ pending = {}
    /\ segments = <<>>
    /\ short_files = <<>>
    /\ idx = 0
    /\ video_info = ReturnsNone
    /\ existing = 0
    /\ uploaded = 0 /\ skipped = 0 /\ failed = 0
    /\ putOk = FALSE
    /\ calls = NoCalls
    /\ message = NoMessage
    /\ exitStatus = -1
    /\ exc = NoExc

\* The same, of the next state.
FreshNext ==
    /\ pc' = "config"
    /\ s3_client' = FALSE
    /\ session' = "none"
    /\ closes' = 0
    /\ pending' = {}
    /\ segments' = <<>>
    /\ short_files' = <<>>
    /\ idx' = 0
    /\ video_info' = ReturnsNone
    /\ existing' = 0
    /\ uploaded' = 0 /\ skipped' = 0 /\ failed' = 0
    /\ putOk' = FALSE
    /\ calls' = NoCalls
    /\ message' = NoMessage
    /\ exitStatus' = -1
    /\ exc' = NoExc

\* Every environment; every directory, analysis file and table for the
\* environments that pass the configuration check.  A run that fails the
\* check reads none of the three, so one value of each stands for all.
Init ==
    /\ env \in [EnvKeys -> {None, EnvValue}]
    /\ shorts \in ShortsDirs
    /\ analysis \in AnalysisFiles
    /\ db \in InitialTables
    /\ (\E k \in RequiredKeys : ~Truthy(env[k])) =>
           /\ shorts = [exists |-> TRUE, files |-> {}]
           /\ analysis = [exists |-> TRUE, hasSegments |-> TRUE, segments |-> <<>>]
           /\ db = {}
    /\ store = {}
    /\ rerun = FALSE
    /\ prev = NoPrev
    /\ Fresh

world == <<env, shorts, analysis>>
counters == <<uploaded, skipped, failed>>
clip == <<idx, video_info, existing, putOk>>

\* sys.exit(code)
Exit(code) == pc' = "exited" /\ exitStatus' = code /\ exc' = NoExc

\* An exception nobody catches: the interpreter ends with status 1.
Uncaught(e) == pc' = "exited" /\ exitStatus' = 1 /\ exc' = e

\* ---------------------------------------------------------- configuration

\* all([video_id, r2_access_key, r2_secret_key, r2_endpoint, r2_bucket,
\* database_url])
AllRequired(e) == \A k \in RequiredKeys : Truthy(e[k])

\* What the configuration error tells: the fixed text
\* "Missing required environment variables", which names no key.
MissingMessage(e) == [printed |-> TRUE, keys |-> {}]

Config ==
    /\ pc = "config"
    /\ IF ~AllRequired(env)
       THEN /\ message' = MissingMessage(env)
            /\ Exit(1)
       ELSE /\ pc' = "s3"
            /\ UNCHANGED <<message, exitStatus, exc>>
    /\ UNCHANGED <<world, db, store, s3_client, session, closes, pending,
                   segments, short_files, clip, counters, calls, rerun, prev>>

\* boto3.client(...) builds the client; it sends nothing.
S3Client ==
    /\ pc = "s3"
    /\ s3_client' = TRUE
    /\ pc' = "connect"
    /\ UNCHANGED <<world, db, store, session, closes, pending, segments,
                   short_files, clip, counters, calls, message, exitStatus,
                   exc, rerun, prev>>

\* create_engine, sessionmaker, Session(): the session is there, or the
\* except clause prints the error and exits.
ConnectOk ==
    /\ pc = "connect"
    /\ session' = "open"
    /\ pc' = "analysis"
    /\ UNCHANGED <<exitStatus, exc>>

ConnectFail ==
    /\ pc = "connect"
    /\ Exit(1)
    /\ UNCHANGED session

Connect ==
    /\ (ConnectOk \/ ConnectFail)
    /\ UNCHANGED <<world, db, store, s3_client, closes, pending, segments,
                   short_files, clip, counters, calls, message, rerun, prev>>

\* open(analysis_path), json.load, analysis.get('segments', [])
LoadAnalysis ==
    /\ pc = "analysis"
    /\ calls' = [calls EXCEPT !.open = @ + 1]
    /\ IF ~analysis.exists
       THEN /\ Uncaught("FileNotFoundError")
            /\ UNCHANGED segments
       ELSE /\ segments' = IF analysis.hasSegments THEN analysis.segments ELSE <<>>
            /\ pc' = "listdir"
            /\ UNCHANGED <<exitStatus, exc>>
    /\ UNCHANGED <<world, db, store, s3_client, session, closes, pending,
                   short_files, clip, counters, message, rerun, prev>>

\* All orders in which os.listdir may give a set of names.
Listings(S) ==
    { l \in [1..Cardinality(S) -> S] : \A i, j \in DOMAIN l : l[i] = l[j] => i = j }

\* [f for f in os.listdir(shorts_dir) if f.endswith('.mp4')], then the
\* three counters start at 0.
ListDir ==
    /\ pc = "listdir"
    /\ calls' = [calls EXCEPT !.listdir = @ + 1]
    /\ IF ~shorts.exists
       THEN /\ Uncaught("FileNotFoundError")
            /\ UNCHANGED <<short_files, idx>>
       ELSE /\ \E l \in Listings(shorts.files) :
                 short_files' = SelectSeq(l, LAMBDA f : EndsWith(f, MP4))
            /\ idx' = 1
            /\ pc' = "loop"
            /\ UNCHANGED <<exitStatus, exc>>
    /\ UNCHANGED <<world, db, store, s3_client, session, closes, pending,
                   segments, video_info, existing, putOk, counters, message,
                   rerun, prev>>

\* ------------------------------------------------------------- the loop

\* The for statement takes the next file, or ends.
NextClip ==
    /\ pc' = "loop"
    /\ idx' = idx + 1
    /\ UNCHANGED <<exitStatus, exc>>

\* Lines 116-126: resolve the metadata; None skips the clip, an exception
\* of get_video_info_from_filename is caught nowhere.
Parse ==
    /\ pc = "loop"
    /\ idx <= Len(short_files)
    /\ LET r == get_video_info_from_filename(short_files[idx], segments)
       IN  /\ video_info' = r
           /\ existing' = 0
           /\ putOk' = FALSE
           /\ CASE r.kind = "raise" ->
                     /\ Uncaught(r.exc)
                     /\ UNCHANGED <<idx, counters>>
                [] r.kind = "None" ->
                     /\ skipped' = skipped + 1
                     /\ NextClip
                     /\ UNCHANGED <<uploaded, failed>>
                [] r.kind = "info" ->
                     /\ pc' = "lookup"
                     /\ UNCHANGED <<idx, counters, exitStatus, exc>>
    /\ UNCHANGED <<world, db, store, s3_client, session, closes, pending,
                   segments, short_files, calls, message, rerun, prev>>

\* f"{video_info['video_id']}_short_{filename.split('_')[-1].replace('.mp4', '')}"
ShortVideoId(info, filename) ==
    LET toks == Split(filename, "_")
    IN  info.video_id \o <<"_", "short", "_">> \o Replace(toks[Len(toks)], MP4)

\* session.query(Video).filter_by(video_id=...).first(): the id of a row
\* with that video_id, 0 when there is none.
QueryFirst(table, video_id) ==
    IF \E r \in table : r.video_id = video_id
    THEN (CHOOSE r \in table : r.video_id = video_id).id
    ELSE 0

RowOf(table, id) == CHOOSE r \in table : r.id = id

\* A lookup that never reports a clip as uploaded.
AlreadyUploaded_Never(table, id) == FALSE

\* existing and existing.r2_url
AlreadyUploaded(table, id) == id # 0 /\ Truthy(RowOf(table, id).r2_url)

\* Lines 129-136, when the query answers.
LookupOk ==
    /\ pc = "lookup"
    /\ LET found == QueryFirst(db, ShortVideoId(video_info, short_files[idx]))
       IN  /\ existing' = found
           /\ IF AlreadyUploaded(db, found)
              THEN /\ skipped' = skipped + 1
                   /\ NextClip
                   /\ UNCHANGED <<uploaded, failed>>
              ELSE /\ pc' = "upload"
                   /\ UNCHANGED <<idx, counters, exitStatus, exc>>

\* Line 132 when the query raises: the statement is outside the try.
LookupFail ==
    /\ pc = "lookup"
    /\ Uncaught("DatabaseError")
    /\ UNCHANGED <<idx, existing, counters>>

Lookup ==
    /\ (LookupOk \/ LookupFail)
    /\ calls' = [calls EXCEPT !.query = @ + 1]
    /\ UNCHANGED <<world, db, store, s3_client, session, closes, pending,
                   segments, short_files, video_info, putOk, message, rerun,
                   prev>>

\* f"videos/{filename}"
ObjectKey(filename) == <<"videos/">> \o filename

\* f"{r2_public_url}/{object_key}"
PublicUrl(e, object_key) == Str(e["R2_PUBLIC_URL"]) \o <<"/">> \o object_key

\* A handler that rolls back, counts, and raises again.
Handler_Reraises ==
    /\ pending' = {}
    /\ failed' = failed + 1
    /\ Uncaught("ClientError")
    /\ UNCHANGED <<idx, uploaded, skipped>>

\* except Exception: session.rollback(); failed += 1; then the next clip.
Handler ==
    /\ pending' = {}
    /\ failed' = failed + 1
    /\ NextClip
    /\ UNCHANGED <<uploaded, skipped>>

\* Lines 140-154 when open and put_object return.
UploadOk ==
    /\ pc = "upload"
    /\ store' = store \cup {ObjectKey(short_files[idx])}
    /\ putOk' = TRUE
    /\ pc' = "upsert"
    /\ UNCHANGED <<idx, pending, counters, exitStatus, exc>>

\* A failed put_object that is swallowed: the script goes on to the row.
UploadFail_Swallowed ==
    /\ pc = "upload"
    /\ pc' = "upsert"
    /\ UNCHANGED <<store, putOk, idx, pending, counters, exitStatus, exc>>

\* Lines 140-148 when open or put_object raises.
UploadFail ==
    /\ pc = "upload"
    /\ Handler
    /\ UNCHANGED <<store, putOk>>

Upload ==
    /\ (UploadOk \/ UploadFail)
    /\ calls' = [calls EXCEPT !.put = @ + 1]
    /\ UNCHANGED <<world, db, s3_client, session, closes, segments,
                   short_files, video_info, existing, message, rerun, prev>>

\* Lines 157-173: change the row found, or add a new one (its id is given
\* when the row is written).
Upsert ==
    /\ pc = "upsert"
    /\ LET filename == short_files[idx]
           object_key == ObjectKey(filename)
           r2_url == PublicUrl(env, object_key)
       IN  pending' = pending \cup
             { IF existing # 0
               THEN [RowOf(db, existing) EXCEPT !.r2_url = r2_url,
                                                !.r2_key = object_key]
               ELSE Row(0, ShortVideoId(video_info, filename), filename,
                        video_info.title, video_info.description,
                        video_info.duration, r2_url, object_key) }
    /\ pc' = "commit"
    /\ UNCHANGED <<world, db, store, s3_client, session, closes, segments,
                   short_files, clip, counters, calls, message, exitStatus,
                   exc, rerun, prev>>

\* The table after the session's rows are written: a changed row replaces
\* the row of its id, a new row takes the next id.
Flushed(table, rows) ==
    LET changed == { r \in rows : r.id # 0 }
        added   == { r \in rows : r.id = 0 }
        kept    == { r \in table : \A c \in changed : c.id # r.id }
        \* at most one row is added per transaction
        numbered == { [r EXCEPT !.id = Cardinality(table) + 1] : r \in added }
    IN  kept \cup changed \cup numbered

\* unique=True on video_id
UniqueVideoIds(table) ==
    \A r1, r2 \in table : r1.video_id = r2.video_id => r1 = r2

\* session.commit() returns; uploaded += 1.
CommitOk ==
    /\ pc = "commit"
    /\ UniqueVideoIds(Flushed(db, pending))
    /\ db' = Flushed(db, pending)
    /\ pending' = {}
    /\ uploaded' = uploaded + 1
    /\ NextClip
    /\ UNCHANGED <<skipped, failed>>

\* session.commit() raises (always when the write breaks the unique
\* constraint): the handler rolls back.
CommitFail ==
    /\ pc = "commit"
    /\ Handler
    /\ UNCHANGED db

Commit ==
    /\ (CommitOk \/ CommitFail)
    /\ calls' = [calls EXCEPT !.commit = @ + 1]
    /\ UNCHANGED <<world, store, s3_client, session, closes, segments,
                   short_files, video_info, existing, putOk, message, rerun,
                   prev>>

\* A run counts as a success when a clip was uploaded or skipped.
ReturnValue_CountsSkipped(nUploaded, nSkipped, nFailed) == nUploaded + nSkipped > 0

\* A run counts as a success when no clip failed.
ReturnValue_NoFailures(nUploaded, nSkipped, nFailed) == nFailed = 0

\* return uploaded > 0
ReturnValue(nUploaded, nSkipped, nFailed) == nUploaded > 0

\* Lines 185-201: the loop is over; close the session, print the summary,
\* sys.exit(0 if success else 1).
Summary ==
    /\ pc = "loop"
    /\ idx > Len(short_files)
    /\ session' = "closed"
    /\ closes' = closes + 1
    /\ Exit(IF ReturnValue(uploaded, skipped, failed) THEN 0 ELSE 1)
    /\ UNCHANGED <<world, db, store, s3_client, pending, segments,
                   short_files, clip, counters, calls, message, rerun, prev>>

\* After a run that reached its summary the script is started a second
\* time: same environment, same files, the table and the bucket as the
\* first run left them.
Rerun ==
    /\ pc = "exited"
    /\ ~rerun
    /\ exc = NoExc /\ session = "closed"
    /\ rerun' = TRUE
    /\ prev' = [uploaded |-> uploaded, failed |-> failed,
                rows |-> Cardinality(db)]
    /\ FreshNext
    /\ UNCHANGED <<world, db, store>>

Next ==
    \/ Config
    \/ S3Client
    \/ Connect
    \/ LoadAnalysis
    \/ ListDir
    \/ Parse
    \/ Lookup
    \/ Upload
    \/ Upsert
    \/ Commit
    \/ Summary
    \/ Rerun

Spec == Init /\ [][Next]_vars

\* ------------------------------------------------------------ properties

Completed == pc = "exited" /\ exc = NoExc /\ session = "closed"
Processing == pc \in {"lookup", "upload", "upsert", "commit"}
CurrentFile == short_files[idx]
CurrentId == ShortVideoId(video_info, CurrentFile)

\* C1: a clip whose row already carries a storage URL is skipped: the
\* script never gets to the put_object call, the row or the commit for it.
\* No two rows share a clip identifier.  A second run after a first run
\* in which no clip failed makes no put_object call, uploads nothing and
\* leaves the number of rows as it was, so that every clip it has gone
\* through is counted as skipped.
C1_Idempotent ==
    /\ \A r1, r2 \in db : r1.video_id = r2.video_id => r1.id = r2.id
    /\ pc \in {"upload", "upsert", "commit"} =>
           \A r \in db : r.video_id = CurrentId => ~Truthy(r.r2_url)
    /\ pc = "loop" => uploaded + skipped + failed = idx - 1
    /\ (rerun /\ prev.failed = 0) =>
           /\ calls.put = 0
           /\ uploaded = 0 /\ failed = 0
           /\ Cardinality(db) = prev.rows

\* The second run has ended, after a first run that uploaded a clip and
\* failed none: every clip was skipped.
C1_Witness ==
    /\ rerun /\ Completed
    /\ prev.uploaded >= 1 /\ prev.failed = 0
    /\ calls.query >= 1 /\ calls.put = 0
    /\ skipped = Len(short_files)

\* C2: a step in which put_object is called and does not return raises
\* failed by one, leaves uploaded, the table and the session's rows as
\* they were, and hands over to the next clip of the listing.
C2_UploadFailure ==
    [][ (pc = "upload" /\ ~putOk') =>
            /\ calls'.put = calls.put + 1
            /\ failed' = failed + 1
            /\ uploaded' = uploaded
            /\ db' = db
            /\ pending' = {}
            /\ pc' = "loop"
            /\ idx' = idx + 1 ]_vars

\* The upload of the first clip failed, the second clip was then uploaded
\* and committed.
C2_Witness ==
    /\ ~rerun /\ pc = "loop" /\ idx = 3 /\ Len(short_files) = 2
    /\ failed = 1 /\ uploaded = 1
    /\ ObjectKey(short_files[1]) \notin store
    /\ \E r \in db : r.r2_key = ObjectKey(short_files[2])
    /\ \A r \in db : r.r2_key # ObjectKey(short_files[1])

\* C3: no database error raised while a clip is processed ends the run.
C3_DbErrorsCaught ==
    (pc = "exited" /\ idx >= 1) => exc # "DatabaseError"

\* C4: a run that reached the end of the loop exits with 0 if a clip was
\* uploaded and with 1 if none was.
C4_ExitStatus ==
    Completed => /\ exitStatus \in {0, 1}
                 /\ exitStatus = 0 <=> uploaded > 0

\* Every clip of the run was skipped because its row has a storage URL;
\* nothing failed and the run exits with 1.
C4_Witness ==
    /\ Completed
    /\ Len(short_files) >= 1
    /\ skipped = Len(short_files) /\ calls.query = skipped
    /\ failed = 0 /\ exitStatus = 1

\* {video_id}_{title...}_{segment_number}.mp4: three tokens or more, the
\* last one an integer.
MatchesPattern(filename) ==
    LET parts == Split(Replace(filename, MP4), "_")
    IN  Len(parts) >= 3 /\ IntParse(parts[Len(parts)]).ok

\* C5: for a file name that does not match the pattern the resolution
\* returns None without raising, and no run ends in its exception.
C5_UnparseableSkipped ==
    /\ \A i \in 1..Len(short_files) :
           ~MatchesPattern(short_files[i]) =>
               get_video_info_from_filename(short_files[i], segments).kind = "None"
    /\ exc # "ValueError"

\* C6: a process that got its session and has ended closed it once.
C6_ClosedOnce ==
    (pc = "exited" /\ (session # "none" \/ closes > 0)) =>
        (closes = 1 /\ session = "closed")

ZeroFilesFound == calls.listdir = 1 /\ shorts.exists /\ short_files = <<>>

MissingKeys(e) == { k \in RequiredKeys : ~Truthy(e[k]) }

\* C8: with a required key missing the run exits with 1, its error names
\* exactly the missing keys, and it has made no call and read no file.
C8_NamesMissingKeys ==
    (pc = "exited" /\ MissingKeys(env) # {}) =>
        /\ exitStatus = 1
        /\ message.printed /\ message.keys = MissingKeys(env)
        /\ calls = NoCalls /\ ~s3_client /\ session = "none"

\* C9: for a file name of three tokens or more whose last token is the
\* integer n, and the L segments of the analysis, the resolution returns
\* the info: duration and description of segment n when 1 <= n <= L,
\* 0 and the empty string otherwise.
C9_SegmentDefaults ==
    \A i \in 1..Len(short_files) :
        MatchesPattern(short_files[i]) =>
            LET parts == Split(Replace(short_files[i], MP4), "_")
                n == IntParse(parts[Len(parts)]).val
                r == get_video_info_from_filename(short_files[i], segments)
            IN  /\ r.kind = "info"
                /\ IF 1 <= n /\ n <= Len(segments)
                   THEN /\ r.duration = segments[n].end - segments[n].start
                        /\ r.description = segments[n].description
                   ELSE /\ r.duration = 0
                        /\ r.description = <<>>

\* C10: a row that a step writes to the table belongs to the clip being
\* processed, carries a storage URL, and its key is the key of a
\* put_object call that returned for that clip.
C10_UploadBeforeRow ==
    [][ \A r \in db' \ db :
            /\ Processing /\ putOk
            /\ r.video_id = CurrentId
            /\ Truthy(r.r2_url)
            /\ r.r2_key = ObjectKey(CurrentFile)
            /\ r.r2_key \in store ]_vars

\* The converse fails: after a commit that raised, an object of the bucket
\* has no row, next to a clip that was uploaded and committed.
C10_Witness ==
    /\ uploaded >= 1 /\ failed >= 1 /\ calls.commit >= 2
    /\ \E r \in db : r.r2_key \in store
    /\ \E k \in store : \A r \in db : r.r2_key # k
====
